---- MODULE Spec2Model ----
\* A model of the two headers of fragment:
\*   scope guards  (scoped_lambda, conditional_scoped_lambda, on_scope_exit,
\*                  on_scope_failure, on_scope_success)
\*   StealMember   (steal_impl)
\* The guards live in an environment that constructs, cancels, calls, moves
\* and destroys them while exceptions are thrown and caught around them.
EXTENDS Naturals, Sequences, FiniteSets

VARIABLES guards, uncaught, terminated, func_noexcept,
          obj, Field, stolen, snap

vars == <<guards, uncaught, terminated, func_noexcept,
          obj, Field, stolen, snap>>
guardVars == <<guards, uncaught, terminated, func_noexcept>>
stealVars == <<obj, Field, stolen, snap>>

\* ---------------------------------------------------------------- bounds
\* Number of guard objects a behaviour may construct (moves included).
MaxGuards == 2
\* Number of exceptions that may be in flight at the same time.
MaxDepth == 2
\* Number of call_now() calls counted per guard.
MaxCallNow == 2
\* Largest value an int member of the stolen-from object takes.
MaxVal == 2

GuardIds == 1..MaxGuards

\* ------------------------------------------------------- the environment
\* std::uncaught_exceptions(): the number of exceptions thrown and not yet
\* caught. Exceptions in flight are caught innermost first, so they form a
\* stack, and the count is its depth.
uncaught_exceptions == uncaught

\* ---------------------------------------------------------- guard state
\* A slot that holds no guard object yet.
NoGuard ==
  [status |-> "unborn", kind |-> "none", func_ |-> 0,
   cancel_ |-> FALSE, uncaught_exception_count_ |-> 0,
   cancelCalled |-> FALSE, recancelled |-> FALSE, movedFrom |-> FALSE,
   nowCalls |-> 0, nowRaised |-> FALSE,
   dtorCalls |-> 0, low |-> 0, raised |-> FALSE, mcount |-> 0,
   dcount |-> 0, dUnwind |-> FALSE, result |-> "none"]

\* The fields func_, cancel_ and uncaught_exception_count_ are the members of
\* the guard classes. The others record its history:
\*   cancelCalled  cancel() was called on it (by its owner or by a move)
\*   recancelled   cancel() was called on it when cancel_ was already true
\*   movedFrom     it was the source of a move construction
\*   nowCalls      the calls of func_() made by call_now()
\*   nowRaised     a call of func_() made by call_now() raised an error
\*   dtorCalls     the calls of func_() made by its destructor
\*   low           (conditional guards) how many of the exceptions in flight
\*                 when the count was recorded are still in flight
\*   raised        (conditional guards) an exception was thrown since the
\*                 count was recorded
\*   mcount        (move-constructed conditional guards)
\*                 std::uncaught_exceptions() when the move constructor ran
\*   dcount        std::uncaught_exceptions() when the destructor ran
\*   dUnwind       the destructor was called by stack unwinding
\*   result        what the destructor did

\* on_scope_success instantiating conditional_scoped_lambda<FUNC, true>
CALL_ON_FAILURE_always(kind) == TRUE

\* template parameter CALL_ON_FAILURE of conditional_scoped_lambda
CALL_ON_FAILURE(kind) == kind = "failure"

\* scoped_lambda(FUNC&&): func_(func), cancel_(false)
scoped_lambda(f) ==
  [NoGuard EXCEPT !.status = "live", !.kind = "exit", !.func_ = f,
                  !.cancel_ = FALSE]

\* conditional_scoped_lambda(FUNC&&): func_(func),
\*   uncaught_exception_count_(std::uncaught_exceptions()), cancel_(false)
conditional_scoped_lambda(kind, f) ==
  [NoGuard EXCEPT !.status = "live", !.kind = kind, !.func_ = f,
                  !.cancel_ = FALSE,
                  !.uncaught_exception_count_ = uncaught_exceptions,
                  !.low = uncaught_exceptions]

\* A cancel() that also resets the recorded count
cancel_clears_count(g) ==
  [g EXCEPT !.cancel_ = TRUE, !.cancelCalled = TRUE,
            !.recancelled = @ \/ g.cancel_,
            !.uncaught_exception_count_ = 0]

\* A cancel() that flips the flag: cancel_ = !cancel_
cancel_toggle(g) ==
  [g EXCEPT !.cancel_ = ~@, !.cancelCalled = TRUE,
            !.recancelled = @ \/ g.cancel_]

\* A cancel() that leaves cancel_ as it was
cancel_noop(g) ==
  [g EXCEPT !.cancelCalled = TRUE, !.recancelled = @ \/ g.cancel_]

\* void cancel() { cancel_ = true; }
cancel(g) ==
  [g EXCEPT !.cancel_ = TRUE, !.cancelCalled = TRUE,
            !.recancelled = @ \/ g.cancel_]

\* scoped_lambda(scoped_lambda&& other):
\*   func_(std::forward<FUNC>(other.func_)), cancel_(other.cancel_)
scoped_lambda_move(other) ==
  [NoGuard EXCEPT !.status = "live", !.kind = other.kind,
                  !.func_ = other.func_, !.cancel_ = other.cancel_]

\* A move constructor that samples std::uncaught_exceptions() again
conditional_scoped_lambda_move_resampled(other) ==
  [NoGuard EXCEPT !.status = "live", !.kind = other.kind,
                  !.func_ = other.func_,
                  !.uncaught_exception_count_ = uncaught_exceptions,
                  !.cancel_ = other.cancel_,
                  !.low = other.low, !.raised = other.raised,
                  !.mcount = uncaught_exceptions]

\* conditional_scoped_lambda(conditional_scoped_lambda&& other):
\*   func_(...), uncaught_exception_count_(other.uncaught_exception_count_),
\*   cancel_(other.cancel_)
conditional_scoped_lambda_move(other) ==
  [NoGuard EXCEPT !.status = "live", !.kind = other.kind,
                  !.func_ = other.func_,
                  !.uncaught_exception_count_ = other.uncaught_exception_count_,
                  !.cancel_ = other.cancel_,
                  !.low = other.low, !.raised = other.raised,
                  !.mcount = uncaught_exceptions]

\* A move constructor that forgets other.cancel()
moved_from_not_cancelled(other) == [other EXCEPT !.movedFrom = TRUE]

\* The state a move constructor leaves in its source: other.cancel()
moved_from(other) == [cancel(other) EXCEPT !.movedFrom = TRUE]

\* A call_now() that calls func_() and leaves cancel_ as it was
call_now_keeps_flag(g) == g.cancel_

\* The cancel_ flag call_now() sets before it calls func_()
call_now_cancel(g) == TRUE

\* The comparison with >= for >
is_unwinding_or_equal(g) ==
  uncaught_exceptions >= g.uncaught_exception_count_

\* The test std::uncaught_exception() made: is any exception in flight?
is_any_exception_in_flight(g) == uncaught_exceptions > 0

\* A call_now() that calls func_() first and sets cancel_ after it returns
call_now_invoke_first(g, out) ==
  [g EXCEPT !.cancel_ = IF out = "raise" THEN @ ELSE TRUE,
            !.nowCalls = @ + 1,
            !.nowRaised = @ \/ out = "raise"]

\* void call_now() { cancel_ = true; func_(); }: the guard after the call,
\* whether func_() returned or raised
call_now(g, out) ==
  [g EXCEPT !.cancel_ = call_now_cancel(g),
            !.nowCalls = @ + 1,
            !.nowRaised = @ \/ out = "raise"]

\* bool is_unwinding_due_to_exception() const:
\*   std::uncaught_exceptions() > uncaught_exception_count_
is_unwinding_due_to_exception(g) ==
  uncaught_exceptions > g.uncaught_exception_count_

\* A destructor that calls func_() only when no exception is in flight
scoped_lambda_dtor_normal_only(g) == ~g.cancel_ /\ uncaught_exceptions = 0

\* ~scoped_lambda(): if (!cancel_) func_();
scoped_lambda_dtor(g) == ~g.cancel_

\* A destructor that leaves out the comparison of the counts
conditional_scoped_lambda_dtor_any_exit(g) == ~g.cancel_

\* ~conditional_scoped_lambda():
\*   if (!cancel_ && (is_unwinding_due_to_exception() == CALL_ON_FAILURE)) func_();
conditional_scoped_lambda_dtor(g) ==
  ~g.cancel_ /\ (is_unwinding_due_to_exception(g) = CALL_ON_FAILURE(g.kind))

\* Does the destructor of g call func_()?
dtor_fires(g) ==
  IF g.kind = "exit" THEN scoped_lambda_dtor(g)
                     ELSE conditional_scoped_lambda_dtor(g)

\* ~conditional_scoped_lambda() without its noexcept(...) clause
dtor_noexcept_implicit(g) == TRUE

\* The exception specification of the destructor. ~scoped_lambda() declares
\* none, so it is noexcept; ~conditional_scoped_lambda() is
\*   noexcept(CALL_ON_FAILURE || noexcept(std::declval<FUNC>()()))
dtor_noexcept(g) ==
  IF g.kind = "exit" THEN TRUE
                     ELSE CALL_ON_FAILURE(g.kind) \/ func_noexcept

\* What a call func_() can do: return, or raise an error when FUNC is not
\* noexcept (and one more exception may be in flight).
\* func_noexcept is noexcept(std::declval<FUNC>()()), a property of the
\* callable type the guards of one behaviour are built from.
Outcomes(g) ==
  IF func_noexcept \/ uncaught >= MaxDepth THEN {"return"} ELSE {"return", "raise"}

\* The lowest slot that holds no guard yet
FreeSlot(j) ==
  /\ guards[j].status = "unborn"
  /\ \A k \in GuardIds : k < j => guards[k].status # "unborn"

\* The history of the live conditional guards when an exception is thrown
Thrown(b) ==
  [k \in GuardIds |->
     IF b /\ guards[k].status = "live" /\ guards[k].kind # "exit"
       THEN [guards[k] EXCEPT !.raised = TRUE]
       ELSE guards[k]]

\* The history of the live conditional guards when the innermost exception
\* in flight is caught
Caught ==
  [k \in GuardIds |->
     IF guards[k].status = "live" /\ guards[k].kind # "exit"
          /\ guards[k].low > uncaught - 1
       THEN [guards[k] EXCEPT !.low = uncaught - 1]
       ELSE guards[k]]

\* -------------------------------------------------------- guard operations
\* auto g = on_scope_exit(func)
OnScopeExit(j) ==
  /\ ~terminated
  /\ FreeSlot(j)
  /\ guards' = [guards EXCEPT ![j] = scoped_lambda(j)]
  /\ UNCHANGED <<uncaught, terminated, func_noexcept>>
  /\ UNCHANGED stealVars

\* auto g = on_scope_failure(func)
OnScopeFailure(j) ==
  /\ ~terminated
  /\ FreeSlot(j)
  /\ guards' = [guards EXCEPT ![j] = conditional_scoped_lambda("failure", j)]
  /\ UNCHANGED <<uncaught, terminated, func_noexcept>>
  /\ UNCHANGED stealVars

\* auto g = on_scope_success(func)
OnScopeSuccess(j) ==
  /\ ~terminated
  /\ FreeSlot(j)
  /\ guards' = [guards EXCEPT ![j] = conditional_scoped_lambda("success", j)]
  /\ UNCHANGED <<uncaught, terminated, func_noexcept>>
  /\ UNCHANGED stealVars

\* g.cancel()
Cancel(i) ==
  /\ ~terminated
  /\ guards[i].status = "live"
  /\ guards' = [guards EXCEPT ![i] = cancel(guards[i])]
  /\ UNCHANGED <<uncaught, terminated, func_noexcept>>
  /\ UNCHANGED stealVars

\* g.call_now(), a member of scoped_lambda only: cancel_ = true; func_();
\* call_now() is not noexcept, so an error func_() raises leaves it in flight.
CallNow(i, out) ==
  /\ ~terminated
  /\ guards[i].status = "live"
  /\ guards[i].kind = "exit"
  /\ guards[i].nowCalls < MaxCallNow
  /\ out \in Outcomes(guards[i])
  /\ guards' = [Thrown(out = "raise") EXCEPT ![i] = call_now(guards[i], out)]
  /\ uncaught' = IF out = "raise" THEN uncaught + 1 ELSE uncaught
  /\ UNCHANGED <<terminated, func_noexcept>>
  /\ UNCHANGED stealVars

\* auto g2 = std::move(g1): the move constructor, then other.cancel()
MoveConstruct(i, j) ==
  /\ ~terminated
  /\ guards[i].status = "live"
  /\ FreeSlot(j)
  /\ guards' = [guards EXCEPT
       ![j] = IF guards[i].kind = "exit"
                THEN scoped_lambda_move(guards[i])
                ELSE conditional_scoped_lambda_move(guards[i]),
       ![i] = moved_from(guards[i])]
  /\ UNCHANGED <<uncaught, terminated, func_noexcept>>
  /\ UNCHANGED stealVars

\* The destructor of guard i runs: at the normal end of its scope, or
\* (byUnwind) because stack unwinding destroys it. An error that func_()
\* raises leaves a destructor that is noexcept(false) unless the destructor
\* was called by stack unwinding; otherwise std::terminate is called.
Destroy(i, byUnwind, out) ==
  LET g == guards[i]
      fires == dtor_fires(g)
      raised == fires /\ out = "raise"
      escapes == raised /\ ~dtor_noexcept(g) /\ ~byUnwind
  IN
  /\ ~terminated
  /\ g.status = "live"
  /\ byUnwind => uncaught_exceptions > 0
  /\ out \in Outcomes(g)
  /\ ~fires => out = "return"
  /\ guards' = [Thrown(escapes) EXCEPT ![i] =
       [g EXCEPT !.status = "dead",
                 !.dtorCalls = IF fires THEN 1 ELSE 0,
                 !.dcount = uncaught_exceptions,
                 !.dUnwind = byUnwind,
                 !.result = IF ~fires THEN "quiet"
                            ELSE IF ~raised THEN "returned"
                            ELSE IF escapes THEN "escaped"
                            ELSE "terminated"]]
  /\ uncaught' = IF escapes THEN uncaught + 1 ELSE uncaught
  /\ terminated' = (raised /\ ~escapes)
  /\ UNCHANGED func_noexcept
  /\ UNCHANGED stealVars

\* throw: one more exception is in flight
Throw ==
  /\ ~terminated
  /\ uncaught < MaxDepth
  /\ uncaught' = uncaught + 1
  /\ guards' = Thrown(TRUE)
  /\ UNCHANGED <<terminated, func_noexcept>>
  /\ UNCHANGED stealVars

\* A handler is entered: the innermost exception in flight is caught
Catch ==
  /\ ~terminated
  /\ uncaught > 0
  /\ uncaught' = uncaught - 1
  /\ guards' = Caught
  /\ UNCHANGED <<terminated, func_noexcept>>
  /\ UNCHANGED stealVars

\* ------------------------------------------------------------ StealMember
\* The members of the target type, in declaration order, and their types
Members == <<"a", "b", "c">>
MemberNames == {Members[k] : k \in 1..Len(Members)}
ValuesOf(m) ==
  IF m = "a" THEN {[int |-> v] : v \in 0..MaxVal}
  ELSE IF m = "b" THEN {[bool |-> v] : v \in BOOLEAN}
  ELSE {[str |-> v] : v \in {"x", "y"}}

\* &T::m, a pointer to member
MemPtr(m) == [memptr |-> m]

\* The member lists FRAGMENT_STEAL_MEMBER_DEFINE(Object, ...) may name
Declarations ==
  {<<MemPtr("a"), MemPtr("b"), MemPtr("c")>>,
   <<MemPtr("c"), MemPtr("a"), MemPtr("b")>>,
   <<MemPtr("b"), MemPtr("a")>>,
   <<MemPtr("c")>>}

\* friend auto steal_impl(T &t) { return std::make_tuple(Field...); }
steal_impl(t) == [k \in 1..Len(Field) |-> Field[k]]

\* obj.m = v, by the owner of the instance
SetMember(m, v) ==
  /\ obj' = [obj EXCEPT ![m] = v]
  /\ UNCHANGED <<Field, stolen, snap>>
  /\ UNCHANGED guardVars

\* FRAGMENT_STEAL_MEMBER_METHOD(obj)
Steal ==
  /\ stolen' = steal_impl(obj)
  /\ snap' = obj
  /\ UNCHANGED <<obj, Field>>
  /\ UNCHANGED guardVars

\* --------------------------------------------------------- specifications
GuardInit ==
  /\ guards = [i \in GuardIds |-> NoGuard]
  /\ uncaught = 0
  /\ terminated = FALSE
  /\ func_noexcept \in BOOLEAN

ObjInit == [m \in MemberNames |-> CHOOSE v \in ValuesOf(m) : TRUE]

Init ==
  /\ GuardInit
  /\ obj = ObjInit
  /\ Field = <<MemPtr("a"), MemPtr("b"), MemPtr("c")>>
  /\ stolen = <<>>
  /\ snap = ObjInit

Next ==
  \/ \E j \in GuardIds : OnScopeExit(j)
  \/ \E j \in GuardIds : OnScopeFailure(j)
  \/ \E j \in GuardIds : OnScopeSuccess(j)
  \/ \E i \in GuardIds : Cancel(i)
  \/ \E i \in GuardIds, out \in {"return", "raise"} : CallNow(i, out)
  \/ \E i, j \in GuardIds : MoveConstruct(i, j)
  \/ \E i \in GuardIds, byUnwind \in BOOLEAN, out \in {"return", "raise"} :
       Destroy(i, byUnwind, out)
  \/ Throw
  \/ Catch

Spec == Init /\ [][Next]_vars

InitSteal ==
  /\ GuardInit
  /\ obj \in [MemberNames -> UNION {ValuesOf(m) : m \in MemberNames}]
  /\ \A m \in MemberNames : obj[m] \in ValuesOf(m)
  /\ Field \in Declarations
  /\ stolen = <<>>
  /\ snap = obj

NextSteal ==
  \/ \E m \in MemberNames : \E v \in ValuesOf(m) : SetMember(m, v)
  \/ Steal

SpecSteal == InitSteal /\ [][NextSteal]_vars

\* ------------------------------------------------------------------ claims
Dead(i) == guards[i].status = "dead"

\* Guard i was made by on_scope_exit / on_scope_failure / on_scope_success
\* itself (a move-constructed guard carries the func_ of its source).
Original(i) == guards[i].func_ = i

\* The uncaught-exception count at the destruction of guard i was greater
\* than the count it had recorded.
CountRose(i) == guards[i].dcount > guards[i].uncaught_exception_count_

\* C1, as stated: an unconditional guard made by on_scope_exit on which
\* cancel() was never called has had its action invoked exactly once by its
\* destructor when its scope has ended, on a normal exit and on an exit by
\* unwinding alike.
C1_NeverCancelledFiresAtExit ==
  \A i \in GuardIds :
    (Dead(i) /\ guards[i].kind = "exit" /\ Original(i)
       /\ ~guards[i].cancelCalled)
      => guards[i].dtorCalls = 1

\* C1, amended: an unconditional guard made by on_scope_exit on which neither
\* cancel() (a move from it calls cancel() too) nor call_now() was ever
\* called has had its action invoked exactly
\* once, by its destructor, when its scope has ended, on a normal exit and on
\* an exit by unwinding alike.
C1_UntouchedFiresAtExit ==
  \A i \in GuardIds :
    (Dead(i) /\ guards[i].kind = "exit" /\ Original(i)
       /\ ~guards[i].cancelCalled /\ guards[i].nowCalls = 0)
      => (guards[i].dtorCalls = 1 /\ guards[i].result # "quiet")

\* Two untouched unconditional guards have been destroyed, one at a normal
\* exit and one by unwinding, and each destructor invoked the action.
C1_Witness ==
  \E i, j \in GuardIds :
    /\ Dead(i) /\ guards[i].kind = "exit" /\ Original(i)
    /\ ~guards[i].cancelCalled /\ guards[i].nowCalls = 0
    /\ ~guards[i].dUnwind /\ guards[i].dtorCalls = 1
    /\ Dead(j) /\ guards[j].kind = "exit" /\ Original(j)
    /\ ~guards[j].cancelCalled /\ guards[j].nowCalls = 0
    /\ guards[j].dUnwind /\ guards[j].dtorCalls = 1

\* C2, as stated: once cancel() has been called on a guard, no step invokes
\* its action any more: not its destructor, and not a later call_now().
C2_CancelledNeverInvoked ==
  [][\A i \in GuardIds :
       guards[i].cancelCalled =>
         /\ guards'[i].nowCalls = guards[i].nowCalls
         /\ guards'[i].dtorCalls = guards[i].dtorCalls]_vars

\* C3, as stated: over any sequence of operations the action is invoked at
\* most once per guard, by the destructor or by call_now() but not by both,
\* and not twice by call_now().
C3_AtMostOnce ==
  \A i \in GuardIds : guards[i].nowCalls + guards[i].dtorCalls <= 1

\* C4: after call_now() has run on an unconditional guard the guard is
\* cancelled, each call_now() step invokes the action exactly once, and the
\* destructor does not invoke it again.
C4_CallNowThenNoFire ==
  /\ [][\A i \in GuardIds, out \in {"return", "raise"} :
          CallNow(i, out) =>
            /\ guards'[i].nowCalls = guards[i].nowCalls + 1
            /\ guards'[i].dtorCalls = guards[i].dtorCalls
            /\ guards'[i].cancel_]_vars
  /\ [](\A i \in GuardIds :
          guards[i].nowCalls >= 1 =>
            /\ guards[i].kind = "exit"
            /\ guards[i].cancel_
            /\ guards[i].dtorCalls = 0)

\* call_now() ran once on a guard on which cancel() was never called, the
\* guard has been destroyed since, and its destructor invoked nothing.
C4_Witness ==
  \E i \in GuardIds :
    /\ Dead(i) /\ guards[i].kind = "exit"
    /\ ~guards[i].cancelCalled
    /\ guards[i].nowCalls = 1
    /\ guards[i].dtorCalls = 0

\* A failure-only / success-only guard that was destroyed with cancel_ false
DeadArmed(i, kind) ==
  Dead(i) /\ guards[i].kind = kind /\ ~guards[i].cancel_

\* C5: a failure-only guard that is not cancelled has its action invoked at
\* destruction if and only if the uncaught-exception count at destruction is
\* strictly greater than the count it recorded at construction. So it fires
\* when an error raised after construction unwinds through its scope on top
\* of the recorded ones, and it does not fire at a normal exit with the count
\* back at the recorded value.
C5_FailureFiresIffCountRose ==
  \A i \in GuardIds :
    DeadArmed(i, "failure") =>
      /\ guards[i].dtorCalls = 1 <=> CountRose(i)
      /\ (guards[i].raised /\ guards[i].dUnwind /\ CountRose(i))
           => guards[i].dtorCalls = 1
      /\ (~guards[i].dUnwind
            /\ guards[i].dcount = guards[i].uncaught_exception_count_)
           => guards[i].dtorCalls = 0

\* Two failure-only guards have been destroyed: one by the unwinding of an
\* error raised after its construction, which fired, and one at a normal
\* exit with no new error in flight, which did not.
C5_Witness ==
  \E i, j \in GuardIds :
    /\ DeadArmed(i, "failure") /\ Original(i)
    /\ guards[i].raised /\ guards[i].dUnwind /\ CountRose(i)
    /\ guards[i].dtorCalls = 1
    /\ DeadArmed(j, "failure") /\ Original(j)
    /\ ~guards[j].dUnwind /\ ~CountRose(j)
    /\ guards[j].dtorCalls = 0

\* C6: a failure-only and a success-only guard, neither cancelled, that
\* recorded the same count and were destroyed at the same count: exactly one
\* of the two invoked its action; and a success-only guard that is not
\* cancelled fires exactly when the count at destruction is not greater than
\* the count it recorded.
C6_SuccessIsComplement ==
  /\ \A i, j \in GuardIds :
       (/\ DeadArmed(i, "failure") /\ DeadArmed(j, "success")
        /\ guards[i].uncaught_exception_count_
             = guards[j].uncaught_exception_count_
        /\ guards[i].dcount = guards[j].dcount)
         => guards[i].dtorCalls + guards[j].dtorCalls = 1
  /\ \A j \in GuardIds :
       DeadArmed(j, "success") =>
         (guards[j].dtorCalls = 1 <=> ~CountRose(j))

\* A failure-only and a success-only guard that recorded the same count have
\* been destroyed during the same unwinding: the failure-only one fired, the
\* success-only one did not.
C6_Witness ==
  \E i, j \in GuardIds :
    /\ DeadArmed(i, "failure") /\ DeadArmed(j, "success")
    /\ guards[i].uncaught_exception_count_
         = guards[j].uncaught_exception_count_
    /\ guards[i].dcount = guards[j].dcount
    /\ CountRose(i)
    /\ guards[i].dtorCalls = 1 /\ guards[j].dtorCalls = 0

\* What the destructor of a dead guard with cancel_ false must have done
FiredByRule(i) ==
  IF guards[i].kind = "exit" THEN guards[i].dtorCalls = 1
  ELSE IF guards[i].kind = "failure"
    THEN guards[i].dtorCalls = 1 <=> CountRose(i)
    ELSE guards[i].dtorCalls = 1 <=> ~CountRose(i)

\* C7: a move construction leaves its source cancelled and gives the new
\* guard the source's variant, action, recorded count and cancelled flag as
\* they were before the move; the source's destructor invokes nothing; the
\* destructor of a guard that is cancelled invokes nothing and the destructor
\* of one that is armed fires by the rule of its variant.
C7_MoveTransfersState ==
  /\ [][\A i, j \in GuardIds :
          MoveConstruct(i, j) =>
            /\ guards'[i].cancel_
            /\ guards'[i].status = "live"
            /\ guards'[j].status = "live"
            /\ guards'[j].kind = guards[i].kind
            /\ guards'[j].func_ = guards[i].func_
            /\ guards'[j].cancel_ = guards[i].cancel_
            /\ guards'[j].uncaught_exception_count_
                 = guards[i].uncaught_exception_count_
            /\ guards'[j].nowCalls = 0 /\ guards'[j].dtorCalls = 0
            /\ guards'[i].nowCalls = guards[i].nowCalls
            /\ guards'[i].dtorCalls = guards[i].dtorCalls]_vars
  /\ [](\A i \in GuardIds :
          Dead(i) =>
            /\ guards[i].movedFrom => guards[i].dtorCalls = 0
            /\ guards[i].cancel_ => guards[i].dtorCalls = 0
            /\ ~guards[i].cancel_ => FiredByRule(i))

\* An armed guard was moved from and both guards have been destroyed: the
\* source invoked nothing and the new guard fired.
C7_Witness ==
  \E i, j \in GuardIds :
    /\ i # j
    /\ Dead(i) /\ guards[i].movedFrom
    /\ guards[i].nowCalls = 0 /\ guards[i].dtorCalls = 0
    /\ Dead(j) /\ guards[j].func_ = guards[i].func_
    /\ guards[j].dtorCalls = 1

\* C8, as stated: the tuple steal(instance) returned has one element per
\* declared member, and its k-th element equals the value the k-th declared
\* member of the instance had at the call.
C8_StealReturnsValues ==
  stolen # <<>> =>
    /\ Len(stolen) = Len(Field)
    /\ \A k \in 1..Len(Field) : stolen[k] = snap[Field[k].memptr]

\* C9: when the destructor of a success-only guard runs at a normal exit and
\* the action raises an error, the error leaves the destructor as one more
\* exception in flight and the program is not terminated; the destructor of
\* a failure-only guard never lets an error out.
C9_SuccessErrorPropagates ==
  /\ [][\A i \in GuardIds :
          (Destroy(i, FALSE, "raise") /\ guards[i].kind = "success") =>
            /\ guards'[i].dtorCalls = 1
            /\ guards'[i].result = "escaped"
            /\ uncaught' = uncaught + 1
            /\ ~terminated']_vars
  /\ [](\A i \in GuardIds :
          guards[i].kind = "failure" => guards[i].result # "escaped")

\* A success-only guard was destroyed at a normal exit, its action raised,
\* and the error is in flight in a program that goes on.
C9_Witness ==
  \E i \in GuardIds :
    /\ DeadArmed(i, "success") /\ ~guards[i].dUnwind
    /\ guards[i].result = "escaped"
    /\ uncaught >= 1 /\ ~terminated

\* The three histories of C10 for a failure-only guard that is not cancelled:
\* (a) an error in flight at construction is the only error in flight at
\*     destruction;
\* (b) errors were raised after construction and no error raised after
\*     construction is in flight at destruction;
\* (c) an error raised after construction is in flight at destruction.
C10_HistoryA(i) ==
  /\ guards[i].uncaught_exception_count_ >= 1
  /\ guards[i].low >= 1 /\ guards[i].dcount = 1
C10_HistoryB(i) == guards[i].raised /\ guards[i].dcount = guards[i].low
C10_HistoryC(i) == guards[i].dcount > guards[i].low

\* C10, as stated: the guard does not fire in histories (a) and (b) and it
\* fires in history (c), also when an error was in flight at construction.
C10_FailureHistories ==
  \A i \in GuardIds :
    DeadArmed(i, "failure") =>
      /\ C10_HistoryA(i) => guards[i].dtorCalls = 0
      /\ C10_HistoryB(i) => guards[i].dtorCalls = 0
      /\ C10_HistoryC(i) => guards[i].dtorCalls = 1

\* C10, amended: the guard does not fire in histories (a) and (b), and it
\* fires in history (c) when every error that was in flight at construction
\* is still in flight at destruction. A move-constructed guard carries the
\* recorded count and the history of its source.
C10_FailureHistoriesNet ==
  \A i \in GuardIds :
    DeadArmed(i, "failure") =>
      /\ C10_HistoryA(i) => guards[i].dtorCalls = 0
      /\ C10_HistoryB(i) => guards[i].dtorCalls = 0
      /\ (C10_HistoryC(i)
            /\ guards[i].low = guards[i].uncaught_exception_count_)
           => guards[i].dtorCalls = 1

\* A failure-only guard constructed with one error in flight was destroyed
\* with that error and a new one in flight and fired; another one was
\* destroyed after an error raised in its scope had been caught and did not.
C10_Witness ==
  \E i, j \in GuardIds :
    /\ DeadArmed(i, "failure")
    /\ guards[i].uncaught_exception_count_ = 1 /\ guards[i].low = 1
    /\ guards[i].dcount = 2 /\ guards[i].dtorCalls = 1
    /\ DeadArmed(j, "failure")
    /\ C10_HistoryB(j) /\ guards[j].dtorCalls = 0

\* The guard objects that hold action a: the guard made with it and the
\* guards move-constructed, directly or in a chain, from that guard
Holders(a) == {i \in GuardIds : guards[i].func_ = a}

\* Guard i is Armed: it exists and its destructor would not be held back by
\* cancel_.
Armed(i) == guards[i].status = "live" /\ ~guards[i].cancel_

RECURSIVE SumDtorCalls(_)
SumDtorCalls(S) ==
  IF S = {} THEN 0
  ELSE LET i == CHOOSE x \in S : TRUE
       IN guards[i].dtorCalls + SumDtorCalls(S \ {i})

\* C11: after any number of move constructions from one constructed guard,
\* at most one of the guard objects that hold its action is Armed, and the
\* destructors of all of them together have invoked the action at most once.
C11_OneOwnerMayFire ==
  \A a \in GuardIds :
    /\ Cardinality({i \in Holders(a) : Armed(i)}) <= 1
    /\ SumDtorCalls(Holders(a)) <= 1

\* An armed guard was moved from, every holder of the action has been
\* destroyed, and the action was invoked once, by the last holder.
C11_Witness ==
  \E a \in GuardIds :
    /\ Cardinality(Holders(a)) = MaxGuards
    /\ \A i \in Holders(a) : Dead(i)
    /\ \A i \in Holders(a) :
         guards[i].movedFrom <=> guards[i].dtorCalls = 0
    /\ SumDtorCalls(Holders(a)) = 1

\* Guard i is a conditional guard whose destructor has run
DeadConditional(i) == Dead(i) /\ guards[i].kind \in {"failure", "success"}

\* What the firing decision of a conditional guard is a function of: its
\* variant, its cancel_, the count it recorded and the count at destruction
DecisionInputs(i) ==
  <<guards[i].kind, guards[i].cancel_,
    guards[i].uncaught_exception_count_, guards[i].dcount>>

\* Guard i saw an exception that was in flight when the count was recorded
\* caught and a new one raised, and was destroyed with the count equal to
\* the recorded one.
CaughtOldRaisedNew(i) ==
  /\ guards[i].low < guards[i].uncaught_exception_count_
  /\ guards[i].raised
  /\ guards[i].dcount = guards[i].uncaught_exception_count_

\* C12: two conditional guards that agree on variant, cancel_, recorded count
\* and count at destruction took the same firing decision, whatever was
\* raised and caught in between; and a guard that is not cancelled and saw an
\* old exception caught and a new one raised, with the count at destruction
\* equal to the recorded one, did not fire if failure-only and fired if
\* success-only.
C12_DecisionFromNetCount ==
  /\ \A i, j \in GuardIds :
       (DeadConditional(i) /\ DeadConditional(j)
          /\ DecisionInputs(i) = DecisionInputs(j))
         => guards[i].dtorCalls = guards[j].dtorCalls
  /\ \A i \in GuardIds :
       (DeadConditional(i) /\ ~guards[i].cancel_ /\ CaughtOldRaisedNew(i))
         => guards[i].dtorCalls = (IF guards[i].kind = "failure" THEN 0 ELSE 1)

\* Two failure-only guards with the same inputs and different histories: one
\* saw the old exception caught and a new one raised, the other saw nothing
\* raised or caught; neither fired.
C12_Witness ==
  \E i, j \in GuardIds :
    /\ DeadArmed(i, "failure") /\ DeadArmed(j, "failure")
    /\ DecisionInputs(i) = DecisionInputs(j)
    /\ CaughtOldRaisedNew(i)
    /\ ~guards[j].raised
    /\ guards[j].low = guards[j].uncaught_exception_count_
    /\ guards[i].dtorCalls = 0 /\ guards[j].dtorCalls = 0

\* The data members of guard i (uncaught_exception_count_ is 0 for an
\* unconditional guard, which has no such member)
Members_(i) ==
  <<guards[i].kind, guards[i].func_, guards[i].cancel_,
    guards[i].uncaught_exception_count_>>

\* The invocations of the action made through guard i so far
Calls(i) == <<guards[i].nowCalls, guards[i].dtorCalls>>

\* C13: every cancel() step leaves the guard Cancelled, and a cancel() step
\* on a guard that is already Cancelled (by cancel(), by a move from it or by
\* call_now()) changes none of its data members and invokes nothing.
C13_CancelIdempotent ==
  [][\A i \in GuardIds :
       Cancel(i) =>
         /\ guards'[i].cancel_
         /\ guards'[i].status = "live"
         /\ guards[i].cancel_ =>
              /\ Members_(i)' = Members_(i)
              /\ Calls(i)' = Calls(i)
              /\ uncaught' = uncaught
              /\ terminated' = terminated]_vars

\* cancel() was called on a guard that a move from it had already cancelled
\* and on a guard that call_now() had already cancelled; both are still
\* Cancelled and no action was invoked but by that call_now().
C13_Witness ==
  \E i, j \in GuardIds :
    /\ guards[i].status = "live" /\ guards[i].movedFrom
    /\ guards[i].recancelled /\ guards[i].cancel_
    /\ guards[i].nowCalls = 0
    /\ guards[j].status = "live" /\ ~guards[j].movedFrom
    /\ guards[j].recancelled /\ guards[j].cancel_
    /\ guards[j].nowCalls = 1

\* Guard j is a conditional guard made by move construction
MovedTo(j) ==
  /\ guards[j].status # "unborn"
  /\ guards[j].kind \in {"failure", "success"}
  /\ ~Original(j)

\* C14: a move-constructed conditional guard holds the count that the guard
\* first constructed with its action recorded, whatever the count was when
\* the move constructor ran, and its destructor decides by comparing the
\* count at destruction with that recorded count.
C14_MoveKeepsRecordedCount ==
  \A j \in GuardIds :
    MovedTo(j) =>
      /\ guards[j].uncaught_exception_count_
           = guards[guards[j].func_].uncaught_exception_count_
      /\ (Dead(j) /\ ~guards[j].cancel_) => FiredByRule(j)

\* A failure-only guard that recorded count 0 was moved while an exception
\* was in flight; the new guard was destroyed with that one exception in
\* flight and fired, which it would not have with the count of the move.
C14_Witness ==
  \E j \in GuardIds :
    /\ MovedTo(j) /\ DeadArmed(j, "failure")
    /\ guards[j].uncaught_exception_count_ = 0
    /\ guards[j].mcount = 1
    /\ guards[j].dcount = 1
    /\ guards[j].dtorCalls = 1

\* C15: when the action raised an error during call_now(), the guard is
\* Cancelled from then on, and its destructor, run while that error unwinds
\* or later, does not invoke the action again.
C15_CallNowRaiseLeavesCancelled ==
  \A i \in GuardIds :
    guards[i].nowRaised =>
      /\ guards[i].cancel_
      /\ guards[i].dtorCalls = 0

\* The action raised during the one call_now() on a guard that cancel() was
\* never called on; the guard was destroyed by the unwinding and its
\* destructor invoked nothing.
C15_Witness ==
  \E i \in GuardIds :
    /\ Dead(i) /\ guards[i].kind = "exit"
    /\ guards[i].nowRaised /\ guards[i].nowCalls = 1
    /\ ~guards[i].cancelCalled
    /\ guards[i].dUnwind /\ guards[i].dcount >= 1
    /\ guards[i].dtorCalls = 0

\* The step is an operation that may change the data members of guard k
Touches(k) ==
  \/ Cancel(k)
  \/ \E out \in {"return", "raise"} : CallNow(k, out)
  \/ \E j \in GuardIds : MoveConstruct(k, j)

\* The step is an operation that may invoke the action through guard k
Invokes(k) ==
  \/ \E out \in {"return", "raise"} : CallNow(k, out)
  \/ \E b \in BOOLEAN, out \in {"return", "raise"} : Destroy(k, b, out)

\* The step makes guard k: a constructor call or a move construction
Makes(k) ==
  \/ OnScopeExit(k) \/ OnScopeFailure(k) \/ OnScopeSuccess(k)
  \/ \E i \in GuardIds : MoveConstruct(i, k)

\* C16: the action is invoked through a guard only by call_now() on it or by
\* its destructor, so never by a construction, a cancel() or a move; the data
\* members of an existing guard change only by cancel() or call_now() on it
\* or by a move from it; cancel() changes nothing but the flag; and a step
\* leaves the members and the invocations of every other guard as they were.
C16_Frame ==
  [][\A k \in GuardIds :
       /\ Calls(k)' # Calls(k) => Invokes(k)
       /\ (guards[k].status # "unborn" /\ Members_(k)' # Members_(k))
            => Touches(k)
       /\ (guards[k].status = "unborn" /\ guards'[k] # guards[k])
            => Makes(k)
       /\ Cancel(k) =>
            /\ guards'[k].kind = guards[k].kind
            /\ guards'[k].func_ = guards[k].func_
            /\ guards'[k].uncaught_exception_count_
                 = guards[k].uncaught_exception_count_
            /\ guards'[k].cancel_
            /\ \A m \in GuardIds \ {k} : guards'[m] = guards[m]
       /\ Makes(k) => Calls(k)' = <<0, 0>>]_vars

\* Two guards exist and nothing was invoked: a failure-only guard that
\* recorded count 1 and was cancelled by cancel() still holds that count and
\* its action, and the other guard is armed as constructed.
C16_Witness ==
  \E k, m \in GuardIds :
    /\ k # m
    /\ guards[k].status = "live" /\ guards[k].kind = "failure"
    /\ Original(k) /\ guards[k].cancelCalled /\ ~guards[k].movedFrom
    /\ guards[k].cancel_ /\ guards[k].uncaught_exception_count_ = 1
    /\ guards[m].status = "live" /\ Original(m) /\ ~guards[m].cancel_
    /\ \A i \in GuardIds : Calls(i) = <<0, 0>>

====
